---- MODULE Spec2Model ----
(***************************************************************************)
(* Model of article_summarizer.py: one run of main().                      *)
(*                                                                         *)
(* Text is a sequence of one-character strings, so that strip(), join()    *)
(* and the suffix relation are computed and not assumed.  JSON values are  *)
(* tagged records (obj / list / str / null) and Python's subscripting is   *)
(* modelled with the exception each container type raises.                 *)
(***************************************************************************)
EXTENDS Integers, Sequences, FiniteSets, TLC

\* ---------------------------------------------------------------- bounds
MaxChoiceLen   == 2   \* characters in one line typed at the provider menu
MaxSelectReads == 3   \* lines read by the provider menu before stdin ends
MaxArticleLines == 2  \* lines of the pasted article

\* ---------------------------------------------------------------- text
Whitespace == {" ", "\n", "\t"}

ChoiceAlphabet  == {"1", "2", "3", "x", " "}
ArticleAlphabet == {"a", " "}

RECURSIVE SeqsUpTo(_, _)
SeqsUpTo(S, n) ==
    IF n = 0 THEN {<<>>}
    ELSE LET shorter == SeqsUpTo(S, n - 1)
         IN  shorter \cup {Append(s, c) : s \in shorter, c \in S}

ChoiceLines  == SeqsUpTo(ChoiceAlphabet, MaxChoiceLen)
\* lines of the pasted article: empty, a letter, a blank
ArticleLines == SeqsUpTo(ArticleAlphabet, 1)

\* str.lstrip() / str.rstrip() / str.strip() with no argument
RECURSIVE LStrip(_)
LStrip(s) ==
    IF s = <<>> THEN <<>>
    ELSE IF Head(s) \in Whitespace THEN LStrip(Tail(s)) ELSE s

RECURSIVE RStrip(_)
RStrip(s) ==
    IF s = <<>> THEN <<>>
    ELSE IF s[Len(s)] \in Whitespace THEN RStrip(SubSeq(s, 1, Len(s) - 1)) ELSE s

\* strip() that only removes leading whitespace
Strip_LeftOnly(s) == LStrip(s)

Strip(s) == RStrip(LStrip(s))

\* "\n".join(lines)
RECURSIVE Join(_)
Join(ls) ==
    IF ls = <<>> THEN <<>>
    ELSE IF Len(ls) = 1 THEN ls[1]
    ELSE ls[1] \o <<"\n">> \o Join(Tail(ls))

\* ---------------------------------------------------------------- JSON
JStr(s)   == [t |-> "str", s |-> s]
JNull     == [t |-> "null"]
JList(xs) == [t |-> "list", items |-> xs]
JObj(f)   == [t |-> "obj", fields |-> f]

Ok(v)     == [ok |-> TRUE, value |-> v]
Raise(e)  == [ok |-> FALSE, exc |-> e]

\* v[key] with a string key
SubscriptKey(v, key) ==
    IF v.t = "obj"
    THEN IF key \in DOMAIN v.fields THEN Ok(v.fields[key]) ELSE Raise("KeyError")
    ELSE Raise("TypeError")

\* v[0]
SubscriptZero(v) ==
    IF v.t = "obj" THEN Raise("KeyError")
    ELSE IF v.t = "list"
    THEN IF Len(v.items) > 0 THEN Ok(v.items[1]) ELSE Raise("IndexError")
    ELSE IF v.t = "str"
    THEN IF Len(v.s) > 0 THEN Ok(JStr(<<v.s[1]>>)) ELSE Raise("IndexError")
    ELSE Raise("TypeError")

\* v.get(key, default)
DictGet(v, key, default) ==
    IF v.t = "obj"
    THEN IF key \in DOMAIN v.fields THEN Ok(v.fields[key]) ELSE Ok(default)
    ELSE Raise("AttributeError")

\* bool(v)
Truthy(v) ==
    IF v.t = "str" THEN Len(v.s) > 0
    ELSE IF v.t = "list" THEN Len(v.items) > 0
    ELSE IF v.t = "obj" THEN DOMAIN v.fields # {}
    ELSE FALSE

\* ---------------------------------------------------------------- prompt
\* The f-string of create_summary_prompt, cut into pieces at the three
\* section markers; the pieces in order concatenate to the literal.
Template ==
    << "Please summarize the following article using this exact format. IMPORTANT Use only this format and no other:\n\n> [!Abstract]- \n>**",
       "Summary:",
       "**\n\t>>[One-sentence overview of the article's main point in 30-45 words.] \n\t>\n>**",
       "The details:",
       "** \n\t> - [Key point #1]\n\t> - [Key point #2]\n\t> - [Key point #3]\n(Include 3--5 concise bullet points highlighting the most important factual or contextual details.)\n>\n>**",
       "Why it matters:",
       "**\n     >>[Briefly explain the significance or impact of the article's content. Focus on why readers should care or what the broader implications are.]\n\nMake sure the summary is:\n- Succinct (no fluff)\n- Fact-based\n- Easy to skim\n- Written in plain, neutral, professional language\n- Written in markdown format\n\n",
       "Article to summarize:\n" >>

\* the f-string filled with the trimmed article
create_summary_prompt_Trimmed(article) == Template \o Strip(article)

create_summary_prompt(article) == Template \o article

\* ---------------------------------------------------------------- providers
Providers == {"ollama", "openai", "anthropic"}

\* the if / elif chain of select_ai_provider on the stripped line; "" = no match
ProviderOfChoice(choice) ==
    IF choice = <<"1">> THEN "ollama"
    ELSE IF choice = <<"2">> THEN "openai"
    ELSE IF choice = <<"3">> THEN "anthropic"
    ELSE ""

OllamaUrl    == "http://localhost:11434/api/generate"
OpenAIUrl    == "https://api.openai.com/v1/chat/completions"
AnthropicUrl == "https://api.anthropic.com/v1/messages"

OpenAIKeyName    == "OPENAI_API_KEY"
AnthropicKeyName == "ANTHROPIC_API_KEY"
KeyNames == {OpenAIKeyName, AnthropicKeyName}

\* os.getenv(name): the value, or None (JNull) when the variable is not set
getenv(e, name) == IF name \in DOMAIN e THEN JStr(e[name]) ELSE JNull

\* Environments after load_dotenv(): each key unset, set to "", or set to a value
KeyValues == {<<>>, <<"k">>}
Environments == UNION {[S -> KeyValues] : S \in SUBSET KeyNames}

\* ---------------------------------------------------------------- messages
MsgNoArticle        == "No article text provided. Exiting."
MsgOllamaConnect    == "Error: Could not connect to Ollama. Make sure Ollama is running."
MsgOllamaQuery      == "Error querying Ollama"
MsgOllamaInvalid    == "Error: Invalid response from Ollama"
MsgOpenAINoKey      == "Error: OPENAI_API_KEY environment variable not set"
MsgOpenAIQuery      == "Error querying OpenAI"
MsgOpenAIFormat     == "Error: Unexpected response format from OpenAI"
MsgAnthropicNoKey   == "Error: ANTHROPIC_API_KEY environment variable not set"
MsgAnthropicQuery   == "Error querying Anthropic"
MsgAnthropicFormat  == "Error: Unexpected response format from Anthropic"
MsgUnknownProvider  == "Error: Unknown provider"
MsgNoSummary        == "Error: No summary received"
\* an exception no handler catches: the interpreter prints a traceback, status 1
Traceback(exc)      == "Traceback: " \o exc

\* ---------------------------------------------------------------- HTTP
SummaryText == <<"S", "u", "m", "m", "a", "r", "y", " ", "t", "e", "x", "t">>

\* Response bodies a server can send with a success status.
Documents ==
    { JObj([response |-> JStr(SummaryText)]),
      JObj([response |-> JStr(<<>>)]),
      JObj([response |-> JNull]),
      JObj([error |-> JStr(<<"e">>)]),
      JList(<<>>),
      JObj([choices |-> JList(<<JObj([message |-> JObj([content |-> JStr(SummaryText)])])>>)]),
      JObj([choices |-> JList(<<JObj([message |-> JObj([content |-> JStr(<<>>)])])>>)]),
      JObj([choices |-> JList(<<JObj([message |-> JObj([role |-> JStr(<<"a">>)])])>>)]),
      JObj([choices |-> JList(<<JObj([index |-> JStr(<<"0">>)])>>)]),
      JObj([choices |-> JList(<<>>)]),
      JObj([choices |-> JNull]),
      JObj([content |-> JList(<<JObj([text |-> JStr(SummaryText)])>>)]),
      JObj([content |-> JList(<<JObj([type |-> JStr(<<"t">>)])>>)]),
      JObj([content |-> JList(<<>>)]),
      JObj([content |-> JStr(SummaryText)]) }

\* What requests.post(...), raise_for_status() and response.json() can do.
\* InvalidJSON_req: the body is not JSON and response.json() raises
\* requests.exceptions.JSONDecodeError (a RequestException);
\* InvalidJSON_plain: it raises a plain json.JSONDecodeError (older requests).
FailureKinds == {"ConnectionError", "Timeout", "HTTPError",
                 "InvalidJSON_req", "InvalidJSON_plain"}
Outcomes == {[kind |-> k, doc |-> JNull] : k \in FailureKinds}
            \cup {[kind |-> "json", doc |-> d] : d \in Documents}
NoOutcome == [kind |-> "none", doc |-> JNull]

Return(v)  == [returned |-> TRUE, value |-> v, msg |-> ""]
SysExit(m) == [returned |-> FALSE, value |-> JNull, msg |-> m]

\* query_ollama extracting with result["response"] instead of .get(..., "")
query_ollama_Subscript(o) ==
    IF o.kind = "ConnectionError" THEN SysExit(MsgOllamaConnect)
    ELSE IF o.kind \in {"Timeout", "HTTPError", "InvalidJSON_req"} THEN SysExit(MsgOllamaQuery)
    ELSE IF o.kind = "InvalidJSON_plain" THEN SysExit(MsgOllamaInvalid)
    ELSE LET r == SubscriptKey(o.doc, "response")
         IN  IF r.ok THEN Return(r.value) ELSE SysExit(Traceback(r.exc))

\* query_ollama from requests.post on: try body and except clauses in order
query_ollama(o) ==
    IF o.kind = "ConnectionError" THEN SysExit(MsgOllamaConnect)
    ELSE IF o.kind \in {"Timeout", "HTTPError", "InvalidJSON_req"} THEN SysExit(MsgOllamaQuery)
    ELSE IF o.kind = "InvalidJSON_plain" THEN SysExit(MsgOllamaInvalid)
    ELSE LET r == DictGet(o.doc, "response", JStr(<<>>))
         IN  IF r.ok THEN Return(r.value) ELSE SysExit(Traceback(r.exc))

\* result[k1][0][k2][k3] / result[k1][0][k2], left to right, first exception wins
Extract3(doc, k1, k2) ==
    LET a == SubscriptKey(doc, k1) IN
    IF ~a.ok THEN a ELSE
    LET b == SubscriptZero(a.value) IN
    IF ~b.ok THEN b ELSE SubscriptKey(b.value, k2)

Extract4(doc, k1, k2, k3) ==
    LET c == Extract3(doc, k1, k2) IN
    IF ~c.ok THEN c ELSE SubscriptKey(c.value, k3)

\* the try / except of a cloud client, given the extraction result
CloudClient(o, extracted, msgQuery, msgFormat) ==
    IF o.kind \in {"ConnectionError", "Timeout", "HTTPError", "InvalidJSON_req"}
    THEN SysExit(msgQuery)
    ELSE IF o.kind = "InvalidJSON_plain" THEN SysExit(Traceback("JSONDecodeError"))
    ELSE IF extracted.ok THEN Return(extracted.value)
    ELSE IF extracted.exc \in {"KeyError", "IndexError"} THEN SysExit(msgFormat)
    ELSE SysExit(Traceback(extracted.exc))

query_openai(o) ==
    CloudClient(o, Extract4(o.doc, "choices", "message", "content"),
                MsgOpenAIQuery, MsgOpenAIFormat)

query_anthropic(o) ==
    CloudClient(o, Extract3(o.doc, "content", "text"),
                MsgAnthropicQuery, MsgAnthropicFormat)

\* get_ai_response: the if / elif chain on the provider name
get_ai_response(p, o) ==
    IF p = "ollama" THEN query_ollama(o)
    ELSE IF p = "openai" THEN query_openai(o)
    ELSE IF p = "anthropic" THEN query_anthropic(o)
    ELSE SysExit(MsgUnknownProvider)

\* both cloud clients looking up the same variable (a copied getenv line)
KeyNameOf_SharedKey(p) ==
    IF p \in {"openai", "anthropic"} THEN OpenAIKeyName ELSE ""

\* every client, the local one included, asking for a credential
KeyNameOf_LocalToo(p) ==
    IF p = "anthropic" THEN AnthropicKeyName ELSE OpenAIKeyName

\* the credential a client looks up before it sends; "" = none
KeyNameOf(p) ==
    IF p = "openai" THEN OpenAIKeyName
    ELSE IF p = "anthropic" THEN AnthropicKeyName
    ELSE ""

NoKeyMsgOf(p) == IF p = "openai" THEN MsgOpenAINoKey ELSE MsgAnthropicNoKey

UrlOf(p) ==
    IF p = "ollama" THEN OllamaUrl
    ELSE IF p = "openai" THEN OpenAIUrl
    ELSE AnthropicUrl

\* ---------------------------------------------------------------- state
VARIABLES
    pc,            \* position of main(): a state of the orchestrator, or "Exited"
    visited,       \* orchestrator states entered so far, in order
    env,           \* process environment after load_dotenv()
    nread,         \* lines consumed from standard input
    lastInput,     \* select_ai_provider: the last line input() returned
    choice,        \* select_ai_provider: choice, that line stripped
    nerr,          \* select_ai_provider: "Invalid choice" messages printed
    provider,      \* main: provider ("" until select_ai_provider returns)
    lines,         \* get_user_input: lines
    article_text,  \* main: article_text
    prompt,        \* main: prompt
    envReads,      \* names passed to os.getenv, in order
    httpRequests,  \* requests.post calls made, in order
    awaiting,      \* a requests.post call is blocking
    outcome,       \* what the requests.post call produced
    summary,       \* main: summary
    returned,      \* the provider client returned a value to main
    displayed,     \* summaries printed between the banner lines
    clipboard,     \* texts handed to pyperclip.copy that reached the clipboard
    warnings,      \* "Warning: Could not copy to clipboard" messages printed
    errorMsg,      \* error printed before a fatal exit ("" = none)
    exitStatus     \* process exit status, -1 while running

vars == << pc, visited, env, nread, lastInput, choice, nerr, provider, lines, article_text,
           prompt, envReads, httpRequests, awaiting, outcome, summary, returned,
           displayed, clipboard, warnings, errorMsg, exitStatus >>

StateOrder == << "SelectProvider", "ReadArticle", "Validate", "BuildPrompt",
                 "Invoke", "ValidateResult", "Display", "CopyClipboard", "Done" >>

Init ==
    /\ pc = "SelectProvider"
    /\ visited = << "SelectProvider" >>
    /\ env \in Environments
    /\ nread = 0
    /\ lastInput = <<>>
    /\ choice = <<>>
    /\ nerr = 0
    /\ provider = ""
    /\ lines = <<>>
    /\ article_text = <<>>
    /\ prompt = <<>>
    /\ envReads = <<>>
    /\ httpRequests = <<>>
    /\ awaiting = FALSE
    /\ outcome = NoOutcome
    /\ summary = JNull
    /\ returned = FALSE
    /\ displayed = <<>>
    /\ clipboard = <<>>
    /\ warnings = 0
    /\ errorMsg = ""
    /\ exitStatus = -1

\* main moves on to the next orchestrator state
Goto(s) ==
    /\ pc' = s
    /\ visited' = Append(visited, s)

\* sys.exit(1) after printing msg, or an uncaught exception
Fatal(msg) ==
    /\ pc' = "Exited"
    /\ errorMsg' = msg
    /\ exitStatus' = 1
    /\ UNCHANGED visited

\* select_ai_provider: one pass of the while loop that reads a line
SelectRead(line) ==
    /\ pc = "SelectProvider"
    /\ nread < MaxSelectReads
    /\ nread' = nread + 1
    /\ lastInput' = line
    /\ choice' = Strip(line)
    /\ LET p == ProviderOfChoice(choice') IN
       IF p # ""
       THEN /\ provider' = p
            /\ Goto("ReadArticle")
            /\ UNCHANGED nerr
       ELSE /\ nerr' = nerr + 1
            /\ UNCHANGED << provider, pc, visited >>
    /\ UNCHANGED << env, lines, article_text, prompt, envReads, httpRequests,
                    awaiting, outcome, summary, returned, displayed, clipboard,
                    warnings, errorMsg, exitStatus >>

\* select_ai_provider: input() meets end of input; EOFError is not caught
SelectEOF ==
    /\ pc = "SelectProvider"
    /\ Fatal(Traceback("EOFError"))
    /\ UNCHANGED << env, nread, lastInput, choice, nerr, provider, lines, article_text,
                    prompt, envReads, httpRequests, awaiting, outcome, summary,
                    returned, displayed, clipboard, warnings >>

\* get_user_input: one pass of the while loop
ReadLine(line) ==
    /\ pc = "ReadArticle"
    /\ Len(lines) < MaxArticleLines
    /\ lines' = Append(lines, line)
    /\ nread' = nread + 1
    /\ UNCHANGED << pc, visited, env, lastInput, choice, nerr, provider, article_text,
                    prompt, envReads, httpRequests, awaiting, outcome, summary,
                    returned, displayed, clipboard, warnings, errorMsg, exitStatus >>

\* get_user_input: EOFError ends the loop; main receives the joined lines
ReadEOF ==
    /\ pc = "ReadArticle"
    /\ article_text' = Join(lines)
    /\ Goto("Validate")
    /\ UNCHANGED << env, nread, lastInput, choice, nerr, provider, lines, prompt, envReads,
                    httpRequests, awaiting, outcome, summary, returned,
                    displayed, clipboard, warnings, errorMsg, exitStatus >>

\* Validate without the strip(): `if not article_text`
Validate_NoStrip ==
    /\ pc = "Validate"
    /\ IF article_text = <<>>
       THEN Fatal(MsgNoArticle)
       ELSE Goto("BuildPrompt") /\ UNCHANGED << errorMsg, exitStatus >>
    /\ UNCHANGED << env, nread, lastInput, choice, nerr, provider, lines, article_text,
                    prompt, envReads, httpRequests, awaiting, outcome, summary,
                    returned, displayed, clipboard, warnings >>

\* main: if not article_text.strip()
Validate ==
    /\ pc = "Validate"
    /\ IF Strip(article_text) = <<>>
       THEN Fatal(MsgNoArticle)
       ELSE Goto("BuildPrompt") /\ UNCHANGED << errorMsg, exitStatus >>
    /\ UNCHANGED << env, nread, lastInput, choice, nerr, provider, lines, article_text,
                    prompt, envReads, httpRequests, awaiting, outcome, summary,
                    returned, displayed, clipboard, warnings >>

\* main: prompt = create_summary_prompt(article_text)
BuildPrompt ==
    /\ pc = "BuildPrompt"
    /\ prompt' = create_summary_prompt(article_text)
    /\ Goto("Invoke")
    /\ UNCHANGED << env, nread, lastInput, choice, nerr, provider, lines, article_text,
                    envReads, httpRequests, awaiting, outcome, summary, returned,
                    displayed, clipboard, warnings, errorMsg, exitStatus >>

\* `not api_key` for the value os.getenv returned
NotApiKey(k) == ~Truthy(k)

\* get_ai_response dispatches to a client; the client looks up its credential
\* (cloud clients only) and calls requests.post
Send ==
    /\ pc = "Invoke"
    /\ ~awaiting
    /\ IF provider \notin Providers
       THEN /\ Fatal(MsgUnknownProvider)
            /\ UNCHANGED << envReads, httpRequests, awaiting >>
       ELSE IF KeyNameOf(provider) = ""
       THEN /\ httpRequests' = Append(httpRequests,
                   [by |-> provider, url |-> UrlOf(provider), prompt |-> prompt, key |-> JNull])
            /\ awaiting' = TRUE
            /\ UNCHANGED << pc, visited, envReads, errorMsg, exitStatus >>
       ELSE LET api_key == getenv(env, KeyNameOf(provider)) IN
            /\ envReads' = Append(envReads, KeyNameOf(provider))
            /\ IF NotApiKey(api_key)
               THEN /\ Fatal(NoKeyMsgOf(provider))
                    /\ UNCHANGED << httpRequests, awaiting >>
               ELSE /\ httpRequests' = Append(httpRequests,
                           [by |-> provider, url |-> UrlOf(provider), prompt |-> prompt, key |-> api_key])
                    /\ awaiting' = TRUE
                    /\ UNCHANGED << pc, visited, errorMsg, exitStatus >>
    /\ UNCHANGED << env, nread, lastInput, choice, nerr, provider, lines, article_text,
                    prompt, outcome, summary, returned, displayed, clipboard, warnings >>

\* a client that posts again after a timeout instead of exiting
Receive_Retry(o) ==
    /\ pc = "Invoke"
    /\ awaiting
    /\ outcome' = o
    /\ IF o.kind = "Timeout" /\ Len(httpRequests) < 2
       THEN /\ httpRequests' = Append(httpRequests, httpRequests[1])
            /\ UNCHANGED << awaiting, pc, visited, summary, returned, errorMsg, exitStatus >>
       ELSE /\ awaiting' = FALSE
            /\ UNCHANGED httpRequests
            /\ LET r == get_ai_response(provider, o) IN
               IF r.returned
               THEN /\ summary' = r.value
                    /\ returned' = TRUE
                    /\ Goto("ValidateResult")
                    /\ UNCHANGED << errorMsg, exitStatus >>
               ELSE /\ Fatal(r.msg)
                    /\ UNCHANGED << summary, returned >>
    /\ UNCHANGED << env, nread, lastInput, choice, nerr, provider, lines, article_text,
                    prompt, envReads, displayed, clipboard, warnings >>

\* requests.post returns or raises; the client extracts the text or exits
Receive(o) ==
    /\ pc = "Invoke"
    /\ awaiting
    /\ awaiting' = FALSE
    /\ outcome' = o
    /\ LET r == get_ai_response(provider, o) IN
       IF r.returned
       THEN /\ summary' = r.value
            /\ returned' = TRUE
            /\ Goto("ValidateResult")
            /\ UNCHANGED << errorMsg, exitStatus >>
       ELSE /\ Fatal(r.msg)
            /\ UNCHANGED << summary, returned >>
    /\ UNCHANGED << env, nread, lastInput, choice, nerr, provider, lines, article_text,
                    prompt, envReads, httpRequests, displayed, clipboard, warnings >>

\* ValidateResult testing `summary is None` instead of `not summary`
ValidateResult_NoneOnly ==
    /\ pc = "ValidateResult"
    /\ IF summary = JNull
       THEN Fatal(MsgNoSummary)
       ELSE Goto("Display") /\ UNCHANGED << errorMsg, exitStatus >>
    /\ UNCHANGED << env, nread, lastInput, choice, nerr, provider, lines, article_text,
                    prompt, envReads, httpRequests, awaiting, outcome, summary,
                    returned, displayed, clipboard, warnings >>

\* main: if not summary
ValidateResult ==
    /\ pc = "ValidateResult"
    /\ IF ~Truthy(summary)
       THEN Fatal(MsgNoSummary)
       ELSE Goto("Display") /\ UNCHANGED << errorMsg, exitStatus >>
    /\ UNCHANGED << env, nread, lastInput, choice, nerr, provider, lines, article_text,
                    prompt, envReads, httpRequests, awaiting, outcome, summary,
                    returned, displayed, clipboard, warnings >>

\* main: print(summary) between the banner lines
Display ==
    /\ pc = "Display"
    /\ displayed' = Append(displayed, summary)
    /\ Goto("CopyClipboard")
    /\ UNCHANGED << env, nread, lastInput, choice, nerr, provider, lines, article_text,
                    prompt, envReads, httpRequests, awaiting, outcome, summary,
                    returned, clipboard, warnings, errorMsg, exitStatus >>

\* copy_to_clipboard without its try / except
copy_to_clipboard_NoCatch(text, works) ==
    IF works
    THEN [raised |-> FALSE, copied |-> << text >>, warned |-> 0]
    ELSE [raised |-> TRUE, copied |-> << >>, warned |-> 0]

\* copy_to_clipboard(text): pyperclip.copy works, or raises and the except
\* clause prints a warning; the result says what reached the clipboard and
\* whether an exception leaves the function
copy_to_clipboard(text, works) ==
    IF works
    THEN [raised |-> FALSE, copied |-> << text >>, warned |-> 0]
    ELSE [raised |-> FALSE, copied |-> << >>, warned |-> 1]

\* main handing the prompt, not the summary, to copy_to_clipboard
CopyClipboard_Prompt(works) ==
    /\ pc = "CopyClipboard"
    /\ LET r == copy_to_clipboard(JStr(prompt), works) IN
       /\ clipboard' = clipboard \o r.copied
       /\ warnings' = warnings + r.warned
       /\ IF r.raised
          THEN Fatal(Traceback("PyperclipException"))
          ELSE Goto("Done") /\ exitStatus' = 0 /\ UNCHANGED errorMsg
    /\ UNCHANGED << env, nread, lastInput, choice, nerr, provider, lines, article_text,
                    prompt, envReads, httpRequests, awaiting, outcome, summary,
                    returned, displayed >>

\* main: copy_to_clipboard(summary), then main returns and the process ends;
\* main has no handler of its own around the call
CopyClipboard(works) ==
    /\ pc = "CopyClipboard"
    /\ LET r == copy_to_clipboard(summary, works) IN
       /\ clipboard' = clipboard \o r.copied
       /\ warnings' = warnings + r.warned
       /\ IF r.raised
          THEN Fatal(Traceback("PyperclipException"))
          ELSE Goto("Done") /\ exitStatus' = 0 /\ UNCHANGED errorMsg
    /\ UNCHANGED << env, nread, lastInput, choice, nerr, provider, lines, article_text,
                    prompt, envReads, httpRequests, awaiting, outcome, summary,
                    returned, displayed >>

Next ==
    \/ \E line \in ChoiceLines : SelectRead(line)
    \/ SelectEOF
    \/ \E line \in ArticleLines : ReadLine(line)
    \/ ReadEOF
    \/ Validate
    \/ BuildPrompt
    \/ Send
    \/ \E o \in Outcomes : Receive(o)
    \/ ValidateResult
    \/ Display
    \/ \E works \in BOOLEAN : CopyClipboard(works)

Spec == Init /\ [][Next]_vars

\* create_summary_prompt on its own: main stands at BuildPrompt holding any
\* non-empty text over the article alphabet, and the prompt is built from it.
MaxTextLen == 4
Texts == SeqsUpTo(ArticleAlphabet \cup {"\n"}, MaxTextLen) \ {<<>>}

InitPrompt ==
    /\ pc = "BuildPrompt"
    /\ visited = SubSeq(StateOrder, 1, 4)
    /\ env \in {e \in Environments : DOMAIN e = {}}
    /\ nread = 1
    /\ lastInput = << "1" >>
    /\ choice = << "1" >>
    /\ nerr = 0
    /\ provider = "ollama"
    /\ lines = <<>>
    /\ article_text \in Texts
    /\ prompt = <<>>
    /\ envReads = <<>>
    /\ httpRequests = <<>>
    /\ awaiting = FALSE
    /\ outcome = NoOutcome
    /\ summary = JNull
    /\ returned = FALSE
    /\ displayed = <<>>
    /\ clipboard = <<>>
    /\ warnings = 0
    /\ errorMsg = ""
    /\ exitStatus = -1

NextPrompt == BuildPrompt

SpecPrompt == InitPrompt /\ [][NextPrompt]_vars

\* ================================================================ claims
IsBlank(s) == \A i \in 1..Len(s) : s[i] \in Whitespace

Entered(st) == \E i \in 1..Len(visited) : visited[i] = st
\* the orchestrator state st was entered and its step has been taken
Passed(st) == Entered(st) /\ pc # st

CloudProviders == {"openai", "anthropic"}
OwnKey(p)      == IF p = "openai" THEN "OPENAI_API_KEY" ELSE "ANTHROPIC_API_KEY"
OwnNoKeyMsg(p) == IF p = "openai" THEN MsgOpenAINoKey ELSE MsgAnthropicNoKey

\* C1: once main has validated an article that is empty or only whitespace,
\* the process has ended with status 1 and the empty-article message, whatever
\* the provider; no prompt was built, no credential looked up, no request sent,
\* nothing displayed and nothing copied.
C1_BlankArticleStopsBeforeClient ==
    (Passed("Validate") /\ IsBlank(article_text)) =>
        /\ pc = "Exited"
        /\ exitStatus = 1
        /\ errorMsg = MsgNoArticle
        /\ prompt = <<>>
        /\ envReads = <<>>
        /\ httpRequests = <<>>
        /\ ~awaiting
        /\ ~returned
        /\ displayed = <<>>
        /\ clipboard = <<>>

C1_Witness ==
    /\ pc = "Exited"
    /\ errorMsg = MsgNoArticle
    /\ article_text = << " ", "\n", " " >>
    /\ provider = "anthropic"
    /\ DOMAIN env = {}

\* C2: with a cloud provider selected whose own credential is not set, no
\* HTTP request is ever attempted, and once send has been invoked the run has
\* ended with status 1 and the provider's missing-key message.
C2_MissingCredentialFatalNoRequest ==
    \A p \in CloudProviders :
        (provider = p /\ OwnKey(p) \notin DOMAIN env) =>
            /\ httpRequests = <<>>
            /\ ~awaiting
            /\ Passed("Invoke") =>
                  /\ pc = "Exited"
                  /\ exitStatus = 1
                  /\ errorMsg = OwnNoKeyMsg(p)

C2_Witness ==
    /\ provider = "anthropic"
    /\ DOMAIN env = {"OPENAI_API_KEY"}
    /\ env["OPENAI_API_KEY"] # <<>>
    /\ Passed("Invoke")
    /\ pc = "Exited"
    /\ errorMsg = MsgAnthropicNoKey
    /\ envReads = << "ANTHROPIC_API_KEY" >>

\* The text a provider's response carries, read off the documented shape
\* (ollama: {"response": t}; openai: {"choices": [{"message": {"content": t}}]};
\* anthropic: {"content": [{"text": t}]}).
HasKey(v, k) == v.t = "obj" /\ k \in DOMAIN v.fields
HasFirst(v)  == v.t = "list" /\ Len(v.items) > 0

Resolves(p, d) ==
    IF p = "ollama" THEN HasKey(d, "response")
    ELSE IF p = "openai"
    THEN /\ HasKey(d, "choices")
         /\ HasFirst(d.fields["choices"])
         /\ HasKey(d.fields["choices"].items[1], "message")
         /\ HasKey(d.fields["choices"].items[1].fields["message"], "content")
    ELSE /\ HasKey(d, "content")
         /\ HasFirst(d.fields["content"])
         /\ HasKey(d.fields["content"].items[1], "text")

Leaf(p, d) ==
    IF p = "ollama" THEN d.fields["response"]
    ELSE IF p = "openai"
    THEN d.fields["choices"].items[1].fields["message"].fields["content"]
    ELSE d.fields["content"].items[1].fields["text"]

WellFormed(p, d) == Resolves(p, d) /\ Leaf(p, d).t = "str"

OwnFormatMsg(p) == IF p = "openai" THEN MsgOpenAIFormat ELSE MsgAnthropicFormat

GotJson == outcome.kind = "json"

\* C3 as stated: a well-formed response makes the client return the expected
\* text, and a response in which the expected field or structure is missing
\* makes the client itself end the run instead of returning a value.
C3_MissingFieldFailsInClient ==
    GotJson =>
        /\ WellFormed(provider, outcome.doc) =>
              returned /\ summary = Leaf(provider, outcome.doc)
        /\ ~Resolves(provider, outcome.doc) =>
              ~returned /\ pc = "Exited" /\ exitStatus = 1

\* C3 amended: a well-formed response makes the client return the expected
\* text.  With the expected key / index path missing, query_openai and
\* query_anthropic end the run with status 1 without returning (the format
\* message for a missing key or index, a traceback for a value of the wrong
\* container type); query_ollama ends the run on a body that is not an
\* object, and on an object without "response" it returns the empty string,
\* after which main ends the run with status 1 at its empty-summary check.
\* In none of the missing cases is anything displayed or copied.
C3_ExtractionPerClient ==
    GotJson =>
        /\ WellFormed(provider, outcome.doc) =>
              returned /\ summary = Leaf(provider, outcome.doc)
        /\ (~Resolves(provider, outcome.doc) /\ provider \in CloudProviders) =>
              /\ ~returned
              /\ pc = "Exited"
              /\ exitStatus = 1
              /\ errorMsg \in {OwnFormatMsg(provider), Traceback("TypeError")}
        /\ (~Resolves(provider, outcome.doc) /\ provider = "ollama"
                /\ outcome.doc.t # "obj") =>
              /\ ~returned
              /\ pc = "Exited"
              /\ exitStatus = 1
              /\ errorMsg = Traceback("AttributeError")
        /\ (~Resolves(provider, outcome.doc) /\ provider = "ollama"
                /\ outcome.doc.t = "obj") =>
              /\ returned
              /\ summary = JStr(<<>>)
              /\ pc \in {"ValidateResult", "Exited"}
              /\ pc = "Exited" => (exitStatus = 1 /\ errorMsg = MsgNoSummary)
        /\ ~Resolves(provider, outcome.doc) =>
              displayed = <<>> /\ clipboard = <<>>

C3_Witness ==
    /\ provider = "ollama"
    /\ outcome = [kind |-> "json", doc |-> JObj([error |-> JStr(<<"e">>)])]
    /\ returned
    /\ summary = JStr(<<>>)
    /\ pc = "Exited"
    /\ errorMsg = MsgNoSummary

IsPrefix(a, b) == Len(a) <= Len(b) /\ SubSeq(b, 1, Len(a)) = a
Last(q) == q[Len(q)]

\* C4: the orchestrator states are entered in the order SelectProvider,
\* ReadArticle, Validate, BuildPrompt, Invoke, ValidateResult, Display,
\* CopyClipboard, Done, each at most once; a blank article at Validate, a
\* client that does not return at Invoke and an empty summary at
\* ValidateResult end the process in that very state with status 1, and a
\* process that ended with an error never displayed or copied anything.
C4_ForwardOnlyFailFast ==
    /\ IsPrefix(visited, StateOrder)
    /\ pc # "Exited" => (pc = Last(visited) /\ errorMsg = "")
    /\ pc = "Done" <=> exitStatus = 0
    /\ pc \notin {"Done", "Exited"} <=> exitStatus = -1
    /\ pc = "Exited" =>
          /\ exitStatus = 1
          /\ errorMsg # ""
          /\ Last(visited) \in {"SelectProvider", "Validate", "Invoke", "ValidateResult"}
          /\ displayed = <<>>
          /\ clipboard = <<>>
    /\ (Passed("Validate") /\ IsBlank(article_text)) =>
          (pc = "Exited" /\ Last(visited) = "Validate")
    /\ (Passed("Invoke") /\ ~returned) =>
          (pc = "Exited" /\ Last(visited) = "Invoke")
    /\ (Passed("ValidateResult") /\ (summary.t # "str" \/ summary.s = <<>>)) =>
          (pc = "Exited" /\ Last(visited) = "ValidateResult")

C4_Witness ==
    /\ pc = "Exited"
    /\ visited = SubSeq(StateOrder, 1, 6)
    /\ returned
    /\ summary = JStr(<<>>)
    /\ provider = "openai"
    /\ errorMsg = MsgNoSummary

\* C5: whether the clipboard write worked or failed, a run that has taken the
\* CopyClipboard step is at Done with exit status 0 and no error printed; a
\* failed write shows only as a warning.
C5_ClipboardFailureNotFatal ==
    Passed("CopyClipboard") =>
        /\ pc = "Done"
        /\ exitStatus = 0
        /\ errorMsg = ""
        /\ \/ clipboard = << summary >> /\ warnings = 0
           \/ clipboard = << >> /\ warnings = 1

C5_Witness ==
    /\ pc = "Done"
    /\ exitStatus = 0
    /\ clipboard = << >>
    /\ warnings = 1
    /\ displayed = << summary >>

\* s is t with whitespace added in front and behind
IsTrimOf(s, t) ==
    \E i \in 0..Len(s) :
        /\ i + Len(t) <= Len(s)
        /\ SubSeq(s, i + 1, i + Len(t)) = t
        /\ \A k \in 1..Len(s) : (k <= i \/ k > i + Len(t)) => s[k] \in Whitespace

MenuDigits == { << "1" >>, << "2" >>, << "3" >> }
MenuProvider(d) ==
    IF d = << "1" >> THEN "ollama" ELSE IF d = << "2" >> THEN "openai" ELSE "anthropic"

\* lines select_ai_provider consumed: all lines read less those of the article
SelectReads == nread - Len(lines)

\* C6 as stated: only the lines "1", "2", "3" themselves are choices; any
\* other line gets one error message and another read.
C6_ExactLinesOnly ==
    /\ pc = "SelectProvider" =>
          /\ provider = ""
          /\ nerr = nread
          /\ nread > 0 => lastInput \notin MenuDigits
    /\ provider # "" =>
          /\ lastInput \in MenuDigits
          /\ provider = MenuProvider(lastInput)
          /\ SelectReads = nerr + 1

\* C6 amended: a line is a choice when it is "1", "2" or "3" after leading
\* and trailing whitespace is removed.  While the menu is still reading,
\* every line read so far was no choice and got exactly one error message;
\* once it has returned, the last line it read is a choice, the provider is
\* the one that choice names, and it read exactly one line more than it
\* printed error messages, so nothing after the first choice was consumed.
C6_TrimmedChoice ==
    /\ pc = "SelectProvider" =>
          /\ provider = ""
          /\ nerr = nread
          /\ nread > 0 => ~ \E d \in MenuDigits : IsTrimOf(lastInput, d)
    /\ provider # "" =>
          /\ \E d \in MenuDigits : IsTrimOf(lastInput, d) /\ provider = MenuProvider(d)
          /\ SelectReads = nerr + 1

C6_Witness ==
    /\ pc = "ReadArticle"
    /\ lines = <<>>
    /\ nread = 3
    /\ nerr = 2
    /\ lastInput = << "2", " " >>
    /\ provider = "openai"

\* C7: in a run that ended with the summary on the clipboard, the client
\* returned a non-empty text, the text displayed and the text copied are
\* that text as the response carried it, the clipboard was written once, and
\* at no time is something on the clipboard that was not displayed before.
C7_SummaryShownThenCopiedVerbatim ==
    /\ Len(displayed) <= 1
    /\ Len(clipboard) <= 1
    /\ clipboard # <<>> => displayed # <<>>
    /\ displayed # <<>> =>
          /\ returned
          /\ GotJson
          /\ WellFormed(provider, outcome.doc)
          /\ Leaf(provider, outcome.doc).s # <<>>
          /\ displayed = << Leaf(provider, outcome.doc) >>
    /\ clipboard # <<>> => clipboard = displayed
    /\ (pc = "Done" /\ warnings = 0) => Len(clipboard) = 1

C7_Witness ==
    /\ pc = "Done"
    /\ provider = "ollama"
    /\ outcome = [kind |-> "json", doc |-> JObj([response |-> JStr(SummaryText)])]
    /\ displayed = << JStr(SummaryText) >>
    /\ clipboard = << JStr(SummaryText) >>
    /\ exitStatus = 0

IsSuffix(a, b) == Len(a) <= Len(b) /\ SubSeq(b, Len(b) - Len(a) + 1, Len(b)) = a

\* C8: the prompt built from a non-empty article ends with the article
\* unchanged, and the part before it contains the markers "Summary:",
\* "The details:" and "Why it matters:".
C8_PromptEndsWithArticle ==
    (Passed("BuildPrompt") /\ article_text # <<>>) =>
        /\ IsSuffix(article_text, prompt)
        /\ \A m \in {"Summary:", "The details:", "Why it matters:"} :
              \E i \in 1..(Len(prompt) - Len(article_text)) : prompt[i] = m

C8_Witness ==
    /\ pc = "Invoke"
    /\ article_text = << " ", "a", "\n", " " >>
    /\ Len(prompt) = Len(Template) + 4

EndpointOf(p) ==
    IF p = "ollama" THEN "http://localhost:11434/api/generate"
    ELSE IF p = "openai" THEN "https://api.openai.com/v1/chat/completions"
    ELSE "https://api.anthropic.com/v1/messages"

\* C9: a run posts at most one HTTP request; the request goes to the
\* endpoint of the selected provider and carries the prompt built from the
\* article; a client that did not return has ended the run with status 1
\* with no further request made, and a client that returned made exactly one.
C9_OneRequestNoRetryNoFallback ==
    /\ Len(httpRequests) <= 1
    /\ \A i \in 1..Len(httpRequests) :
          /\ httpRequests[i].by = provider
          /\ httpRequests[i].url = EndpointOf(provider)
          /\ httpRequests[i].prompt = Template \o article_text
    /\ (awaiting \/ returned) => Len(httpRequests) = 1
    /\ (Passed("Invoke") /\ ~returned) =>
          /\ pc = "Exited"
          /\ exitStatus = 1
          /\ ~awaiting

C9_Witness ==
    /\ pc = "Exited"
    /\ provider = "anthropic"
    /\ outcome.kind = "Timeout"
    /\ Len(httpRequests) = 1
    /\ httpRequests[1].url = "https://api.anthropic.com/v1/messages"
    /\ DOMAIN env = KeyNames
    /\ env["OPENAI_API_KEY"] # <<>>

OtherCloud(p) == IF p = "openai" THEN "anthropic" ELSE "openai"
KeyUsable(p)  == OwnKey(p) \in DOMAIN env /\ env[OwnKey(p)] # <<>>

\* C10: the only credential ever looked up is the selected cloud provider's
\* own, once, and only after a non-blank article has been read, validated and
\* turned into a prompt; the local provider never ends with a missing-key
\* error; a cloud provider never ends with the other provider's missing-key
\* error, ends with its own only when its own key is unset or empty, and with
\* its own key set always gets its request out; a blank article ends with the
\* empty-article error and no lookup, whatever the environment holds.
C10_CredentialCheckedLateOwnOnly ==
    /\ Len(envReads) <= 1
    /\ \A i \in 1..Len(envReads) :
          provider \in CloudProviders /\ envReads[i] = OwnKey(provider)
    /\ envReads # <<>> =>
          /\ Entered("Invoke")
          /\ ~IsBlank(article_text)
          /\ prompt # <<>>
    /\ provider = "ollama" => errorMsg \notin {MsgOpenAINoKey, MsgAnthropicNoKey}
    /\ \A p \in CloudProviders :
          provider = p =>
              /\ errorMsg # OwnNoKeyMsg(OtherCloud(p))
              /\ errorMsg = OwnNoKeyMsg(p) => ~KeyUsable(p)
              /\ (KeyUsable(p) /\ Entered("Invoke") /\ (awaiting \/ pc # "Invoke")) =>
                    Len(httpRequests) = 1
    /\ (Passed("Validate") /\ IsBlank(article_text)) =>
          (errorMsg = MsgNoArticle /\ envReads = <<>>)

C10_Witness ==
    /\ pc = "Done"
    /\ provider = "openai"
    /\ DOMAIN env = {"OPENAI_API_KEY"}
    /\ envReads = << "OPENAI_API_KEY" >>
    /\ exitStatus = 0

====
